---- MODULE Spec2Model ----
(***************************************************************************)
(* jobmanager: one JobManager_Server holding the argument ledger args_set  *)
(* and the three queues job_q, result_q, fail_q, and the worker processes  *)
(* of JobManager_Client running __worker_func.  Every action is one atomic *)
(* step of one process; SIGINT/SIGTERM are steps of their own because the  *)
(* handlers (Signal_to_sys_exit) raise SystemExit between two statements   *)
(* of the interrupted process.  Two smaller parts have specifications of   *)
(* their own: the periodic task Loop with its process running              *)
(* _wrapper_func (SpecLoop), and the sizing of the worker pool by          *)
(* JobManager_Client (SpecClient).                                         *)
(***************************************************************************)
EXTENDS Integers, Sequences, FiniteSets

\* number of distinct argument values the user may seed
NumArgs == 2
\* number of worker processes (nproc summed over all clients)
NumWorkers == 2

Args == 1 .. NumArgs
Workers == 1 .. NumWorkers
\* at most this many put_arg calls before start()
MaxJobs == NumArgs

\* value of the local variable new_args before its first assignment
Unbound == 0
\* the three dump kinds of _shoutdown
DumpKinds == {"final_result", "args", "fail"}
\* the settings of the three fname_for_*_dump options that are explored: the
\* default (none is None) and each option alone set to None
FnameChoices == {DumpKinds} \cup {DumpKinds \ {k} : k \in DumpKinds}

VARIABLES
    spc,          \* position of the server main process
    args_set,     \* JobManager_Server.args_set
    job_q,        \* JobManager_Server.job_q
    result_q,     \* JobManager_Server.result_q
    fail_q,       \* JobManager_Server.fail_q
    numjobs,      \* JobManager_Server.numjobs.value
    numresults,   \* JobManager_Server.numresults.value
    final_result, \* JobManager_Server.final_result
    cur,          \* the pair (arg, result) bound in the drain loop
    err,          \* the first exception raised inside start(), "none" if none
    manager_up,   \* the SyncManager process serves the queues
    fnames,       \* the dump kinds whose fname_for_*_dump is not None
    status_bar,   \* (verbose > 0) and not no_status_bar
    files,        \* the dump files written so far
    dump_args,    \* content of the args dump
    dump_fail,    \* content of the fail dump
    dump_final,   \* content of the final_result dump
    wpc,          \* position of each worker process
    new_args,     \* each worker's local variable new_args
    fail_args,    \* the arguments on which func raises
    seeded,       \* history: the arguments passed to put_arg
    unique,       \* history: no put_arg call repeated an argument
    passed,       \* history: the arguments process_new_result was called with
    slept,        \* history: start() reached time.sleep(__wait_before_stop)
    holds,        \* history: the worker took new_args from job_q and has not
                  \* yet posted or re-queued it
    signalled,    \* history: a SIGINT or SIGTERM was delivered to some process
    caller,       \* the process start() was called from, "none" before the call
    run,          \* Loop._run.value, the shared flag of the periodic task
    lpc,          \* position of the process running Loop._wrapper_func
    sigint,       \* Loop._sigint, the disposition of SIGINT in the loop process
    sigterm,      \* Loop._sigterm, the disposition of SIGTERM
    quit_loop,    \* the outcome of the last call of Loop.func
    calls,        \* history: how often Loop.func was called
    starts,       \* history: how often Loop.start() spawned a process
    sigs,         \* history: the signals delivered to the loop process
    sigstopped,   \* history: a signal handler has set the flag to False
    nproc_arg,    \* the argument nproc of JobManager_Client.__init__
    cpu_count,    \* mp.cpu_count()
    nproc,        \* JobManager_Client.nproc
    cpc,          \* position of the client main process
    procs,        \* len(JobManager_Client.procs)
    hpc,          \* position of the process that owns the Loop object
    verbose,      \* Loop.verbose
    auto_kill,    \* Loop._auto_kill_on_last_resort
    sigkill,      \* history: __exit__ has sent SIGKILL
    prompted      \* history: __exit__ has asked the operator

svars == <<spc, args_set, numjobs, numresults, final_result, cur, err,
           manager_up, fnames, status_bar, files, dump_args, dump_fail,
           dump_final, seeded, unique, passed, slept, caller>>
qvars == <<job_q, result_q, fail_q>>
wvars == <<wpc, new_args, holds, fail_args>>
\* the variables of the server and its workers
jvars == <<svars, qvars, wvars, signalled>>
\* the variables of the periodic task (Loop)
\* the variables of Loop.__exit__
xvars == <<hpc, verbose, auto_kill, sigkill, prompted>>
lvars == <<run, lpc, sigint, sigterm, quit_loop, calls, starts, sigs,
           sigstopped, xvars>>
\* the variables of the client main process
cvars == <<nproc_arg, cpu_count, nproc, cpc, procs>>
vars == <<jvars, lvars, cvars>>

Range(s) == {s[i] : i \in 1 .. Len(s)}

\* JobManager_Client.func as overridden in simple_example: return args
func(a) == a

\* the name of the exception class raised by func
ErrName == "Exception"
\* socket.gethostname() on the client
Hostname == "client"

\* the server after JobManager_Server.__init__, no worker spawned yet
JobInit ==
    /\ spc = "seed"
    /\ args_set = {}
    /\ job_q = <<>>
    /\ result_q = <<>>
    /\ fail_q = <<>>
    /\ numjobs = 0
    /\ numresults = 0
    /\ final_result = <<>>
    /\ cur = <<Unbound, Unbound>>
    /\ err = "none"
    /\ manager_up = TRUE
    /\ fnames \in FnameChoices
    /\ status_bar \in BOOLEAN
    /\ files = {}
    /\ dump_args = {}
    /\ dump_fail = <<>>
    /\ dump_final = <<>>
    /\ wpc = [w \in Workers |-> "idle"]
    /\ new_args = [w \in Workers |-> Unbound]
    /\ fail_args \in SUBSET Args
    /\ seeded = {}
    /\ unique = TRUE
    /\ passed = {}
    /\ slept = FALSE
    /\ holds = [w \in Workers |-> FALSE]
    /\ signalled = FALSE
    /\ caller = "none"

\* no Loop object exists
LoopIdle ==
    /\ run = FALSE
    /\ lpc = "none"
    /\ sigint = "stop"
    /\ sigterm = "stop"
    /\ quit_loop = "none"
    /\ calls = 0
    /\ starts = 0
    /\ sigs = {}
    /\ sigstopped = FALSE
    /\ hpc = "body"
    /\ verbose = 0
    /\ auto_kill = FALSE
    /\ sigkill = FALSE
    /\ prompted = FALSE

\* no JobManager_Client object is looked at
ClientIdle ==
    /\ nproc_arg = 0
    /\ cpu_count = 1
    /\ nproc = 0
    /\ cpc = "new"
    /\ procs = 0

Init == JobInit /\ LoopIdle /\ ClientIdle


(***************************************************************************)
(* Queues: multiprocessing.Queue reached directly by the server and        *)
(* through the SyncManager proxies by the workers.                         *)
(***************************************************************************)
\* Queue.put(item)
Enqueue(q, item) == Append(q, item)
\* mutant: get() returns the first item and leaves it on the queue
DequeueKeeps(q) == q
\* what Queue.get() leaves on the queue
Dequeue(q) == Tail(q)
\* Queue.qsize()
qsize(q) == Len(q)

(***************************************************************************)
(* JobManager_Server                                                       *)
(***************************************************************************)
\* args_set.add(a)
LedgerAdd(set, a) == set \cup {a}
\* mutant: the argument of a delivered result stays in the ledger
LedgerRemoveKeeps(set, arg) == set
\* args_set.remove(arg), for arg in the set
LedgerRemove(set, arg) == set \ {arg}
\* mutant: the drain loop goes on until the ledger is empty, whatever is on
\* fail_q
GateLedgerOnly(set, fq) == Cardinality(set) > 0
\* mutant: the drain loop goes on while the difference is not negative
GateNotNegative(set, fq) == (Cardinality(set) - qsize(fq)) >= 0
\* mutant: the drain loop stops one argument early
GateOffByOne(set, fq) == (Cardinality(set) - qsize(fq)) > 1
\* the while condition of the drain loop
Gate(set, fq) == (Cardinality(set) - qsize(fq)) > 0
\* the value start() assigns to numresults after a fold
NumResults(nj, set, fq) == nj - (Cardinality(set) - qsize(fq))
\* the default process_new_result: final_result.append((arg, result))
process_new_result(fr, arg, result) == Append(fr, <<arg, result>>)
\* JobManager_Server.process_final_result: does nothing
process_final_result(fr) == fr
\* the precondition of start() on the seeding
SeedingOk(nj, set) == nj = Cardinality(set)
\* mutant: the args dump is written for an empty args_set too
ArgsDumpDueAlways(set, fn) == "args" \in fn
\* _shoutdown writes the args dump
ArgsDumpDue(set, fn) == Cardinality(set) > 0 /\ "args" \in fn
\* mutant: every seeded argument is dumped, not the leftover ones
ArgsListSeeded(set) == seeded
\* args = list(args_set), the content of the args dump
ArgsList(set) == set
\* _shoutdown enters the fail dump branch
FailDumpDue(fq) == fq # <<>>

\* the positions of start() inside the try block
TryPcs == {"test", "get", "fold"}
\* the positions inside _shoutdown
ShutdownPcs == {"shutdown", "final", "dump_final", "dump_args", "dump_fail"}

\* put_arg, up to job_q.put.  Arguments are opaque values: the k-th new
\* argument is named k, a repeated argument is any earlier one.
PutArg(a) ==
    /\ spc = "seed"
    /\ numjobs < MaxJobs
    /\ a <= Cardinality(args_set) + 1
    /\ args_set' = LedgerAdd(args_set, a)
    /\ job_q' = Enqueue(job_q, a)
    /\ seeded' = seeded \cup {a}
    /\ unique' = (unique /\ a \notin args_set)
    /\ spc' = "put_inc"
    /\ UNCHANGED <<numjobs, numresults, final_result, cur, err, manager_up,
                   fnames, status_bar, files, dump_args, dump_fail,
                   dump_final, passed, slept, result_q, fail_q, wvars,
                   signalled>>
    /\ UNCHANGED <<caller, lvars, cvars>>

\* mutant: numjobs counts the distinct arguments
PutArgIncDistinct ==
    /\ spc = "put_inc"
    /\ numjobs' = Cardinality(args_set)
    /\ spc' = "seed"
    /\ UNCHANGED <<args_set, numresults, final_result, cur, err, manager_up,
                   fnames, status_bar, files, dump_args, dump_fail,
                   dump_final, seeded, unique, passed, slept, qvars, wvars,
                   signalled>>
    /\ UNCHANGED <<caller, lvars, cvars>>

\* put_arg, the increment of numjobs
PutArgInc ==
    /\ spc = "put_inc"
    /\ numjobs' = numjobs + 1
    /\ spc' = "seed"
    /\ UNCHANGED <<args_set, numresults, final_result, cur, err, manager_up,
                   fnames, status_bar, files, dump_args, dump_fail,
                   dump_final, seeded, unique, passed, slept, qvars, wvars,
                   signalled>>
    /\ UNCHANGED <<caller, lvars, cvars>>

\* the processes start() may be called from
Callers == {"owner", "subprocess"}
\* mutant: start() does not compare the process ids
OwnerOkAlways(p) == TRUE
\* self._pid == os.getpid()
OwnerOk(p) == p = "owner"

\* start() up to the try block: the process id test, the seeding
\* precondition, the StatusBar construction (Loop.__init__ takes no keyword
\* run: TypeError), the installation of Signal_to_sys_exit
Start(p) ==
    /\ spc = "seed"
    /\ caller' = p
    /\ IF ~OwnerOk(p) \/ ~SeedingOk(numjobs, args_set)
         THEN spc' = "raised" /\ err' = "RuntimeError"
         ELSE IF status_bar
                THEN spc' = "raised" /\ err' = "TypeError"
                ELSE spc' = "test" /\ err' = err
    /\ UNCHANGED <<args_set, numjobs, numresults, final_result, cur,
                   manager_up, fnames, status_bar, files, dump_args,
                   dump_fail, dump_final, seeded, unique, passed, slept,
                   qvars, wvars, signalled>>
    /\ UNCHANGED <<lvars, cvars>>

\* the while test of the drain loop; the else branch of the try statement
\* when it is false
Test ==
    /\ spc = "test"
    /\ IF Gate(args_set, fail_q)
         THEN spc' = "get" /\ slept' = slept
         ELSE spc' = "settle" /\ slept' = TRUE
    /\ UNCHANGED <<args_set, numjobs, numresults, final_result, cur, err,
                   manager_up, fnames, status_bar, files, dump_args,
                   dump_fail, dump_final, seeded, unique, passed,
                   qvars, wvars, signalled>>
    /\ UNCHANGED <<caller, lvars, cvars>>

\* mutant: args_set.discard(arg) in the place of args_set.remove(arg), so a
\* pair whose arg is not in the set is folded like any other
GetDiscards ==
    /\ spc = "get"
    /\ result_q # <<>>
    /\ cur' = Head(result_q)
    /\ result_q' = Dequeue(result_q)
    /\ args_set' = LedgerRemove(args_set, cur'[1])
    /\ spc' = "fold"
    /\ UNCHANGED <<numjobs, numresults, final_result, err, manager_up,
                   fnames, status_bar, files, dump_args, dump_fail,
                   dump_final, seeded, unique, passed, slept, job_q, fail_q,
                   wvars, signalled>>
    /\ UNCHANGED <<caller, lvars, cvars>>

\* result_q.get(timeout=1) returns a pair; args_set.remove(arg), which
\* raises KeyError for an arg that is not in the set
Get ==
    /\ spc = "get"
    /\ result_q # <<>>
    /\ cur' = Head(result_q)
    /\ result_q' = Dequeue(result_q)
    /\ IF cur'[1] \in args_set
         THEN /\ args_set' = LedgerRemove(args_set, cur'[1])
              /\ spc' = "fold"
              /\ err' = err
         ELSE /\ args_set' = args_set
              /\ spc' = "except"
              /\ err' = "KeyError"
    /\ UNCHANGED <<numjobs, numresults, final_result, manager_up, fnames,
                   status_bar, files, dump_args, dump_fail, dump_final,
                   seeded, unique, passed, slept, job_q, fail_q, wvars,
                   signalled>>
    /\ UNCHANGED <<caller, lvars, cvars>>

\* result_q.get(timeout=1) raises queue.Empty
GetTimeout ==
    /\ spc = "get"
    /\ result_q = <<>>
    /\ spc' = "test"
    /\ UNCHANGED <<args_set, numjobs, numresults, final_result, cur, err,
                   manager_up, fnames, status_bar, files, dump_args,
                   dump_fail, dump_final, seeded, unique, passed, slept,
                   qvars, wvars, signalled>>
    /\ UNCHANGED <<caller, lvars, cvars>>

\* process_new_result(arg, result) returns; numresults is updated
Fold ==
    /\ spc = "fold"
    /\ final_result' = process_new_result(final_result, cur[1], cur[2])
    /\ passed' = passed \cup {cur[1]}
    /\ numresults' = NumResults(numjobs, args_set, fail_q)
    /\ spc' = "test"
    /\ UNCHANGED <<args_set, numjobs, cur, err, manager_up, fnames,
                   status_bar, files, dump_args, dump_fail, dump_final,
                   seeded, unique, slept, qvars, wvars, signalled>>
    /\ UNCHANGED <<caller, lvars, cvars>>

\* mutant: only queue.Empty is caught and there is no finally block, so the
\* exception of process_new_result leaves start()
FoldRaiseEscapes ==
    /\ spc = "fold"
    /\ passed' = passed \cup {cur[1]}
    /\ err' = "Exception"
    /\ spc' = "raised"
    /\ UNCHANGED <<args_set, numjobs, numresults, final_result, cur,
                   manager_up, fnames, status_bar, files, dump_args,
                   dump_fail, dump_final, seeded, unique, slept,
                   qvars, wvars, signalled>>
    /\ UNCHANGED <<caller, lvars, cvars>>

\* process_new_result(arg, result), overridden by the user, raises
FoldRaise ==
    /\ spc = "fold"
    /\ passed' = passed \cup {cur[1]}
    /\ err' = "Exception"
    /\ spc' = "except"
    /\ UNCHANGED <<args_set, numjobs, numresults, final_result, cur,
                   manager_up, fnames, status_bar, files, dump_args,
                   dump_fail, dump_final, seeded, unique, slept,
                   qvars, wvars, signalled>>
    /\ UNCHANGED <<caller, lvars, cvars>>

\* the except block of start(), then the finally block
Except ==
    /\ spc = "except"
    /\ spc' = "shutdown"
    /\ UNCHANGED <<args_set, numjobs, numresults, final_result, cur, err,
                   manager_up, fnames, status_bar, files, dump_args,
                   dump_fail, dump_final, seeded, unique, passed, slept,
                   qvars, wvars, signalled>>
    /\ UNCHANGED <<caller, lvars, cvars>>

\* time.sleep(__wait_before_stop) returns, then the finally block
Settle ==
    /\ spc = "settle"
    /\ spc' = "shutdown"
    /\ UNCHANGED <<args_set, numjobs, numresults, final_result, cur, err,
                   manager_up, fnames, status_bar, files, dump_args,
                   dump_fail, dump_final, seeded, unique, passed, slept,
                   qvars, wvars, signalled>>
    /\ UNCHANGED <<caller, lvars, cvars>>

\* SIGINT or SIGTERM in the server main process after start() has installed
\* Signal_to_sys_exit: SystemExit is raised where the process stands.  In
\* the try block it is caught by the except block; in the except block or
\* the else branch it leaves through the finally block; inside _shoutdown
\* it ends the shutdown.
ServerSignal ==
    /\ spc \in TryPcs \cup {"except", "settle"} \cup ShutdownPcs
    /\ err' = IF err = "none" THEN "SystemExit" ELSE err
    /\ spc' = IF spc \in TryPcs THEN "except"
              ELSE IF spc \in {"except", "settle"} THEN "shutdown"
              ELSE "aborted"
    /\ signalled' = TRUE
    /\ UNCHANGED <<args_set, numjobs, numresults, final_result, cur,
                   manager_up, fnames, status_bar, files, dump_args,
                   dump_fail, dump_final, seeded, unique, passed, slept,
                   qvars, wvars>>
    /\ UNCHANGED <<caller, lvars, cvars>>

\* mutant: _shoutdown leaves the SyncManager running
ShutdownManagerKeeps ==
    /\ spc = "shutdown"
    /\ spc' = "final"
    /\ UNCHANGED <<args_set, numjobs, numresults, final_result, cur, err,
                   manager_up, fnames, status_bar, files, dump_args,
                   dump_fail, dump_final, seeded, unique, passed, slept,
                   qvars, wvars, signalled>>
    /\ UNCHANGED <<caller, lvars, cvars>>

\* _shoutdown: stop the status bar, manager.shutdown(), join
ShutdownManager ==
    /\ spc = "shutdown"
    /\ manager_up' = FALSE
    /\ spc' = "final"
    /\ UNCHANGED <<args_set, numjobs, numresults, final_result, cur, err,
                   fnames, status_bar, files, dump_args, dump_fail,
                   dump_final, seeded, unique, passed, slept, qvars, wvars,
                   signalled>>
    /\ UNCHANGED <<caller, lvars, cvars>>

\* _shoutdown: process_final_result(), the hook for the final processing
ProcessFinal ==
    /\ spc = "final"
    /\ final_result' = process_final_result(final_result)
    /\ spc' = "dump_final"
    /\ UNCHANGED <<args_set, numjobs, numresults, cur, err, manager_up,
                   fnames, status_bar, files, dump_args, dump_fail,
                   dump_final, seeded, unique, passed, slept, qvars, wvars,
                   signalled>>
    /\ UNCHANGED <<caller, lvars, cvars>>

\* _shoutdown: dump of final_result
DumpFinal ==
    /\ spc = "dump_final"
    /\ IF "final_result" \in fnames
         THEN /\ files' = files \cup {"final_result"}
              /\ dump_final' = final_result
         ELSE UNCHANGED <<files, dump_final>>
    /\ spc' = "dump_args"
    /\ UNCHANGED <<args_set, numjobs, numresults, final_result, cur, err,
                   manager_up, fnames, status_bar, dump_args, dump_fail,
                   seeded, unique, passed, slept, qvars, wvars, signalled>>
    /\ UNCHANGED <<caller, lvars, cvars>>

\* _shoutdown: dump of list(args_set)
DumpArgs ==
    /\ spc = "dump_args"
    /\ IF ArgsDumpDue(args_set, fnames)
         THEN /\ files' = files \cup {"args"}
              /\ dump_args' = ArgsList(args_set)
         ELSE UNCHANGED <<files, dump_args>>
    /\ spc' = "dump_fail"
    /\ UNCHANGED <<args_set, numjobs, numresults, final_result, cur, err,
                   manager_up, fnames, status_bar, dump_fail, dump_final,
                   seeded, unique, passed, slept, qvars, wvars, signalled>>
    /\ UNCHANGED <<caller, lvars, cvars>>

\* _shoutdown: fail_q is drained into fail_list and dumped; open(None)
\* raises TypeError when fname_for_fail_dump is None
DumpFail ==
    /\ spc = "dump_fail"
    /\ IF FailDumpDue(fail_q)
         THEN /\ fail_q' = <<>>
              /\ IF "fail" \in fnames
                   THEN /\ files' = files \cup {"fail"}
                        /\ dump_fail' = fail_q
                        /\ spc' = "done"
                        /\ err' = err
                   ELSE /\ UNCHANGED <<files, dump_fail>>
                        /\ spc' = "raised"
                        /\ err' = "TypeError"
         ELSE /\ UNCHANGED <<fail_q, files, dump_fail, err>>
              /\ spc' = "done"
    /\ UNCHANGED <<args_set, numjobs, numresults, final_result, cur,
                   manager_up, fnames, status_bar, dump_args, dump_final,
                   seeded, unique, passed, slept, job_q, result_q, wvars,
                   signalled>>
    /\ UNCHANGED <<caller, lvars, cvars>>

Server ==
    \/ \E a \in Args : PutArg(a)
    \/ PutArgInc
    \/ \E p \in Callers : Start(p)
    \/ Test
    \/ Get
    \/ GetTimeout
    \/ Fold
    \/ FoldRaise
    \/ Except
    \/ Settle
    \/ ServerSignal
    \/ ShutdownManager
    \/ ProcessFinal
    \/ DumpFinal
    \/ DumpArgs
    \/ DumpFail


(***************************************************************************)
(* JobManager_Client.__worker_func                                         *)
(***************************************************************************)
\* the record the worker puts on fail_q for a failed argument
FailRecord(a) == <<a, ErrName, Hostname>>
\* the pair the worker puts on result_q
ResultPair(a) == <<a, func(a)>>
\* the positions of __worker_func inside the try block of its loop
WorkerTryPcs == {"get", "func"}
\* the positions of __worker_func inside one of its except blocks
WorkerHandlerPcs == {"requeue", "fail"}

\* the worker process is spawned (JobManager_Client.start spawns them one
\* after the other) and _get_manager_object connects; the worker calls
\* sys.exit(1) when the connection fails
WorkerStart(w) ==
    /\ wpc[w] = "idle"
    /\ \A v \in Workers : v < w => wpc[v] # "idle"
    /\ wpc' = [wpc EXCEPT ![w] = IF manager_up THEN "get" ELSE "exited"]
    /\ UNCHANGED <<new_args, holds, fail_args, svars, qvars, signalled>>
    /\ UNCHANGED <<lvars, cvars>>

\* new_args = job_q.get(block=True, timeout=0.1) returns an argument
WorkerGet(w) ==
    /\ wpc[w] = "get"
    /\ manager_up
    /\ job_q # <<>>
    /\ new_args' = [new_args EXCEPT ![w] = Head(job_q)]
    /\ job_q' = Dequeue(job_q)
    /\ holds' = [holds EXCEPT ![w] = TRUE]
    /\ wpc' = [wpc EXCEPT ![w] = "func"]
    /\ UNCHANGED <<fail_args, svars, result_q, fail_q, signalled>>
    /\ UNCHANGED <<lvars, cvars>>

\* mutant: queue.Empty falls into the last except block and is reported as
\* a failure of new_args
WorkerEmptyReports(w) ==
    /\ wpc[w] = "get"
    /\ manager_up
    /\ job_q = <<>>
    /\ fail_q' = Enqueue(fail_q, FailRecord(new_args[w]))
    /\ new_args' = [new_args EXCEPT ![w] = Unbound]
    /\ wpc' = [wpc EXCEPT ![w] = "exited"]
    /\ UNCHANGED <<holds, fail_args, svars, job_q, result_q, signalled>>
    /\ UNCHANGED <<lvars, cvars>>

\* job_q.get raises queue.Empty: the worker returns
WorkerEmpty(w) ==
    /\ wpc[w] = "get"
    /\ manager_up
    /\ job_q = <<>>
    /\ new_args' = [new_args EXCEPT ![w] = Unbound]
    /\ wpc' = [wpc EXCEPT ![w] = "exited"]
    /\ UNCHANGED <<holds, fail_args, svars, qvars, signalled>>
    /\ UNCHANGED <<lvars, cvars>>

\* func(new_args, const_args) returns and result_q.put((new_args, res))
WorkerResult(w) ==
    /\ wpc[w] = "func"
    /\ manager_up
    /\ new_args[w] \notin fail_args
    /\ result_q' = Enqueue(result_q, ResultPair(new_args[w]))
    /\ holds' = [holds EXCEPT ![w] = FALSE]
    /\ wpc' = [wpc EXCEPT ![w] = "get"]
    /\ UNCHANGED <<new_args, fail_args, svars, job_q, fail_q, signalled>>
    /\ UNCHANGED <<lvars, cvars>>

\* func(new_args, const_args) raises: the last except block is entered
WorkerRaise(w) ==
    /\ wpc[w] = "func"
    /\ new_args[w] \in fail_args
    /\ wpc' = [wpc EXCEPT ![w] = "fail"]
    /\ UNCHANGED <<new_args, holds, fail_args, svars, qvars, signalled>>
    /\ UNCHANGED <<lvars, cvars>>

\* mutant: the worker returns after it has reported the failure
WorkerFailReturns(w) ==
    /\ wpc[w] = "fail"
    /\ manager_up
    /\ fail_q' = Enqueue(fail_q, FailRecord(new_args[w]))
    /\ holds' = [holds EXCEPT ![w] = FALSE]
    /\ wpc' = [wpc EXCEPT ![w] = "exited"]
    /\ UNCHANGED <<new_args, fail_args, svars, job_q, result_q, signalled>>
    /\ UNCHANGED <<lvars, cvars>>

\* fail_q.put((new_args, err.__name__, hostname)), the traceback file, and
\* the next iteration of the loop
WorkerFail(w) ==
    /\ wpc[w] = "fail"
    /\ manager_up
    /\ fail_q' = Enqueue(fail_q, FailRecord(new_args[w]))
    /\ holds' = [holds EXCEPT ![w] = FALSE]
    /\ wpc' = [wpc EXCEPT ![w] = "get"]
    /\ UNCHANGED <<new_args, fail_args, svars, job_q, result_q, signalled>>
    /\ UNCHANGED <<lvars, cvars>>

\* mutant: a signal during func is held back until func has returned and
\* its result is on result_q
WorkerSignalAfterFunc(w) ==
    /\ wpc[w] \in WorkerTryPcs \cup WorkerHandlerPcs
    /\ IF wpc[w] = "func"
         THEN /\ result_q' = Enqueue(result_q, ResultPair(new_args[w]))
              /\ wpc' = [wpc EXCEPT ![w] = "requeue"]
              /\ holds' = [holds EXCEPT ![w] = FALSE]
              /\ UNCHANGED new_args
         ELSE /\ result_q' = result_q
              /\ IF wpc[w] = "get"
                   THEN /\ wpc' = [wpc EXCEPT ![w] = "requeue"]
                        /\ UNCHANGED <<holds, new_args>>
                   ELSE /\ wpc' = [wpc EXCEPT ![w] = "exited"]
                        /\ holds' = [holds EXCEPT ![w] = FALSE]
                        /\ new_args' = [new_args EXCEPT ![w] = Unbound]
    /\ signalled' = TRUE
    /\ UNCHANGED <<fail_args, svars, job_q, fail_q>>
    /\ UNCHANGED <<lvars, cvars>>

\* SIGINT or SIGTERM in a worker: SystemExit is raised where the worker
\* stands; inside the try block the except SystemExit block is entered,
\* inside an except block the exception leaves __worker_func
WorkerSignal(w) ==
    /\ wpc[w] \in WorkerTryPcs \cup WorkerHandlerPcs
    /\ IF wpc[w] \in WorkerTryPcs
         THEN /\ wpc' = [wpc EXCEPT ![w] = "requeue"]
              /\ UNCHANGED <<holds, new_args>>
         ELSE /\ wpc' = [wpc EXCEPT ![w] = "exited"]
              /\ holds' = [holds EXCEPT ![w] = FALSE]
              /\ new_args' = [new_args EXCEPT ![w] = Unbound]
    /\ signalled' = TRUE
    /\ UNCHANGED <<fail_args, svars, qvars>>
    /\ UNCHANGED <<lvars, cvars>>

\* the except SystemExit block: job_q.put(new_args, timeout=10) and return;
\* new_args is the argument of the last job_q.get that returned, and the
\* name is unbound (NameError) when none has returned yet
WorkerRequeue(w) ==
    /\ wpc[w] = "requeue"
    /\ manager_up \/ new_args[w] = Unbound
    /\ job_q' = IF new_args[w] = Unbound THEN job_q
                ELSE Enqueue(job_q, new_args[w])
    /\ holds' = [holds EXCEPT ![w] = FALSE]
    /\ new_args' = [new_args EXCEPT ![w] = Unbound]
    /\ wpc' = [wpc EXCEPT ![w] = "exited"]
    /\ UNCHANGED <<fail_args, svars, result_q, fail_q, signalled>>
    /\ UNCHANGED <<lvars, cvars>>

\* a call on a queue proxy after the SyncManager has gone raises in the
\* worker (EOFError or a connection error): the worker ends
WorkerEOF(w) ==
    /\ wpc[w] \in WorkerTryPcs \cup WorkerHandlerPcs
    /\ ~manager_up
    /\ holds' = [holds EXCEPT ![w] = FALSE]
    /\ new_args' = [new_args EXCEPT ![w] = Unbound]
    /\ wpc' = [wpc EXCEPT ![w] = "exited"]
    /\ UNCHANGED <<fail_args, svars, qvars, signalled>>
    /\ UNCHANGED <<lvars, cvars>>

Worker(w) ==
    \/ WorkerStart(w)
    \/ WorkerGet(w)
    \/ WorkerEmpty(w)
    \/ WorkerResult(w)
    \/ WorkerRaise(w)
    \/ WorkerFail(w)
    \/ WorkerSignal(w)
    \/ WorkerRequeue(w)
    \/ WorkerEOF(w)

Next == Server \/ \E w \in Workers : Worker(w)

Spec == Init /\ [][Next]_vars

\* the steps the server main process takes by itself once start() was called
ServerRun ==
    \/ Test
    \/ Get
    \/ GetTimeout
    \/ Fold
    \/ FoldRaise
    \/ Except
    \/ Settle
    \/ ShutdownManager
    \/ ProcessFinal
    \/ DumpFinal
    \/ DumpArgs
    \/ DumpFail

\* the steps a started worker process takes by itself
WorkerRun(w) ==
    \/ WorkerGet(w)
    \/ WorkerEmpty(w)
    \/ WorkerResult(w)
    \/ WorkerRaise(w)
    \/ WorkerFail(w)
    \/ WorkerRequeue(w)
    \/ WorkerEOF(w)

\* every process is scheduled again and again by the operating system, and
\* every blocking call of the drain loop and of the worker loop has a
\* timeout; put_arg, start(), the start of a client and the signals are
\* inputs and are not forced to happen
FairSpec ==
    /\ Spec
    /\ WF_vars(ServerRun)
    /\ \A w \in Workers : WF_vars(WorkerRun(w))


(***************************************************************************)
(* JobManager_Client: the size of the worker pool                          *)
(***************************************************************************)
\* the largest |nproc| passed to JobManager_Client.__init__
MaxNproc == 4
\* the largest mp.cpu_count()
MaxCpu == 4

\* the server in its constructed state, with the default options but the
\* status bar; it takes no step in the specifications of the other parts
JobIdle == JobInit /\ fnames = DumpKinds /\ ~status_bar /\ fail_args = {}

\* the value __init__ assigns to self.nproc
ClientNproc(n, c) == IF n > 0 THEN n ELSE c + n

\* a client is about to be constructed with some nproc on some machine
ClientInit ==
    /\ nproc_arg \in -MaxNproc .. MaxNproc
    /\ cpu_count \in 1 .. MaxCpu
    /\ nproc = 0
    /\ cpc = "new"
    /\ procs = 0

\* JobManager_Client.__init__: self.nproc is set; assert self.nproc > 0 in
\* the else branch raises AssertionError
ClientConstruct ==
    /\ cpc = "new"
    /\ nproc' = ClientNproc(nproc_arg, cpu_count)
    /\ cpc' = IF nproc_arg > 0 \/ nproc' > 0 THEN "constructed" ELSE "raised"
    /\ UNCHANGED <<nproc_arg, cpu_count, procs, jvars, lvars>>

\* JobManager_Client.start() is called
ClientStart ==
    /\ cpc = "constructed"
    /\ cpc' = "spawning"
    /\ UNCHANGED <<nproc_arg, cpu_count, nproc, procs, jvars, lvars>>

\* one iteration of for i in range(self.nproc): a worker process is
\* created, appended to self.procs and started
ClientSpawn ==
    /\ cpc = "spawning"
    /\ procs < nproc
    /\ procs' = procs + 1
    /\ UNCHANGED <<nproc_arg, cpu_count, nproc, cpc, jvars, lvars>>

\* the for loop is over: Signal_to_terminate_process_list and the joins
ClientJoin ==
    /\ cpc = "spawning"
    /\ procs >= nproc
    /\ cpc' = "joined"
    /\ UNCHANGED <<nproc_arg, cpu_count, nproc, procs, jvars, lvars>>

NextClient ==
    \/ ClientConstruct
    \/ ClientStart
    \/ ClientSpawn
    \/ ClientJoin

InitClient == JobIdle /\ LoopIdle /\ ClientInit

SpecClient == InitClient /\ [][NextClient]_vars


(***************************************************************************)
(* Loop: a function called periodically in a process of its own            *)
(***************************************************************************)
\* Loop.func is called at most this many times
MaxCalls == 3
\* Loop.start() spawns a process at most this many times
MaxStarts == 2

\* the signals with a handler in the loop process
Signals == {"SIGINT", "SIGTERM"}
\* the signal handler strings set_signal accepts
Dispositions == {"ign", "stop"}
\* the levels of verbosity: silent, important information, debug
Verbosities == {0, 1, 2}
\* what a call of func does: return a false value, return a true value, or
\* raise
Outcomes == {"falsy", "truthy", "raised"}

\* a Loop object after __init__, for every choice of sigint and sigterm
LoopInit ==
    /\ run = FALSE
    /\ lpc = "none"
    /\ sigint \in Dispositions
    /\ sigterm \in Dispositions
    /\ quit_loop = "none"
    /\ calls = 0
    /\ starts = 0
    /\ sigs = {}
    /\ sigstopped = FALSE
    /\ hpc = "body"
    /\ verbose \in Verbosities
    /\ auto_kill \in BOOLEAN
    /\ sigkill = FALSE
    /\ prompted = FALSE

\* the handler string SIG_handler_Loop was given for a signal
Disposition(sig) == IF sig = "SIGINT" THEN sigint ELSE sigterm
\* Loop.is_alive()
IsAlive == lpc \notin {"none", "returned", "killed"}
\* _ignore_signal: pass
IgnoreSignal(r) == r
\* mutant: the stop handler only prints its message
StopOnSignalKeeps(r) == r
\* _stop_on_signal: shared_mem_run.value = False
StopOnSignal(r) == FALSE
\* mutant: the loop ends only on a true value and sleeps after an exception
AfterFuncGoesOn(o) == IF o = "truthy" THEN "returned" ELSE "sleep"
\* where _wrapper_func goes after func(*args): return in the except block,
\* return if quit_loop, else time.sleep(interval)
AfterFunc(o) == IF o = "falsy" THEN "sleep" ELSE "returned"

\* in the body of the with statement: Loop.start() when no loop process is
\* alive: run = True and a new process running _wrapper_func
LoopStart ==
    /\ hpc = "body"
    /\ ~IsAlive
    /\ starts < MaxStarts
    /\ run' = TRUE
    /\ lpc' = "boot"
    /\ starts' = starts + 1
    /\ quit_loop' = "none"
    /\ sigs' = {}
    /\ sigstopped' = FALSE
    /\ UNCHANGED <<sigint, sigterm, calls, jvars, cvars>>
    /\ UNCHANGED xvars

\* Loop.stop(): run = False
LoopStop ==
    /\ hpc = "body"
    /\ run
    /\ run' = FALSE
    /\ UNCHANGED <<lpc, sigint, sigterm, quit_loop, calls, starts, sigs,
                   sigstopped, jvars, cvars>>
    /\ UNCHANGED xvars

\* _wrapper_func up to the loop: SIG_handler_Loop installs the handlers
LoopBoot ==
    /\ lpc = "boot"
    /\ lpc' = "test"
    /\ UNCHANGED <<run, sigint, sigterm, quit_loop, calls, starts, sigs,
                   sigstopped, jvars, cvars>>
    /\ UNCHANGED xvars

\* while shared_mem_run.value
LoopTest ==
    /\ lpc = "test"
    /\ lpc' = IF run THEN "call" ELSE "returned"
    /\ UNCHANGED <<run, sigint, sigterm, quit_loop, calls, starts, sigs,
                   sigstopped, jvars, cvars>>
    /\ UNCHANGED xvars

\* func(*args) is entered
LoopCall ==
    /\ lpc = "call"
    /\ calls < MaxCalls
    /\ calls' = calls + 1
    /\ lpc' = "func"
    /\ UNCHANGED <<run, sigint, sigterm, quit_loop, starts, sigs,
                   sigstopped, jvars, cvars>>
    /\ UNCHANGED xvars

\* func(*args) returns quit_loop or raises
LoopReturn(o) ==
    /\ lpc = "func"
    /\ quit_loop' = o
    /\ lpc' = AfterFunc(o)
    /\ UNCHANGED <<run, sigint, sigterm, calls, starts, sigs, sigstopped,
                   jvars, cvars>>
    /\ UNCHANGED xvars

\* time.sleep(interval) returns
LoopSleep ==
    /\ lpc = "sleep"
    /\ lpc' = "test"
    /\ UNCHANGED <<run, sigint, sigterm, quit_loop, calls, starts, sigs,
                   sigstopped, jvars, cvars>>
    /\ UNCHANGED xvars

\* SIGINT or SIGTERM in the loop process once the handlers are installed:
\* the handler runs between two statements of _wrapper_func or of func
LoopSignal(sig) ==
    /\ lpc \in {"test", "call", "func", "sleep"}
    /\ sigs' = sigs \cup {sig}
    /\ run' = IF Disposition(sig) = "stop" THEN StopOnSignal(run)
              ELSE IgnoreSignal(run)
    /\ sigstopped' = (sigstopped \/ Disposition(sig) = "stop")
    /\ UNCHANGED <<lpc, sigint, sigterm, quit_loop, calls, starts, jvars,
                   cvars>>
    /\ UNCHANGED xvars

\* the positions of __exit__ after a join with timeout
ExitPcs == {"wait1", "wait2", "last"}
\* the effect of a SIGTERM sent by Process.terminate(): the installed
\* handler runs, or the process dies when it has not installed one yet
Terminated(pc) == IF pc = "boot" THEN "killed" ELSE pc
\* __exit__ returns after stage 1: the process is not alive
Stage1Returns(alive, v) == ~alive
\* __exit__ returns after stage 2: the return statement is in the body of
\* if self.verbose > 0
Stage2Returns(alive, v) == ~alive /\ v > 0

\* __exit__ up to the first join: self._proc is None when start() was never
\* called (AttributeError); a process that has ended is the normal exit,
\* whose message at verbosity 2 names the undefined t (NameError);
\* otherwise stop() and join(2*interval)
ExitEnter ==
    /\ hpc = "body"
    /\ IF lpc = "none" \/ (~IsAlive /\ verbose > 1)
         THEN hpc' = "raised" /\ run' = run
         ELSE IF ~IsAlive
                THEN hpc' = "exited" /\ run' = run
                ELSE hpc' = "wait1" /\ run' = FALSE
    /\ UNCHANGED <<lpc, sigint, sigterm, quit_loop, calls, starts, sigs,
                   sigstopped, verbose, auto_kill, sigkill, prompted,
                   jvars, cvars>>

\* join(2*interval) is over: return, or terminate() and join(5*interval)
ExitStage1 ==
    /\ hpc = "wait1"
    /\ IF Stage1Returns(IsAlive, verbose)
         THEN /\ hpc' = "exited"
              /\ UNCHANGED <<lpc, run, sigs, sigstopped>>
         ELSE /\ hpc' = "wait2"
              /\ lpc' = Terminated(lpc)
              /\ IF lpc = "boot"
                   THEN UNCHANGED <<run, sigs, sigstopped>>
                   ELSE /\ sigs' = sigs \cup {"SIGTERM"}
                        /\ run' = IF sigterm = "stop" THEN StopOnSignal(run)
                                  ELSE IgnoreSignal(run)
                        /\ sigstopped' = (sigstopped \/ sigterm = "stop")
    /\ UNCHANGED <<sigint, sigterm, quit_loop, calls, starts, verbose,
                   auto_kill, sigkill, prompted, jvars, cvars>>

\* join(5*interval) is over: return, or go on to the last resort
ExitStage2 ==
    /\ hpc = "wait2"
    /\ hpc' = IF Stage2Returns(IsAlive, verbose) THEN "exited" ELSE "last"
    /\ UNCHANGED <<run, lpc, sigint, sigterm, quit_loop, calls, starts,
                   sigs, sigstopped, verbose, auto_kill, sigkill, prompted,
                   jvars, cvars>>

\* the last resort: answer is 'y' with auto_kill_on_last_resort, else the
\* operator is asked; 'n' leaves the process running, any other answer
\* sends SIGKILL to self._proc.pid
ExitLast(answer) ==
    /\ hpc = "last"
    /\ auto_kill => answer = "y"
    /\ prompted' = (prompted \/ ~auto_kill)
    /\ sigkill' = (sigkill \/ answer = "y")
    /\ lpc' = IF answer = "y" /\ IsAlive THEN "killed" ELSE lpc
    /\ hpc' = "exited"
    /\ UNCHANGED <<run, sigint, sigterm, quit_loop, calls, starts, sigs,
                   sigstopped, verbose, auto_kill, jvars, cvars>>

NextLoop ==
    \/ ExitEnter
    \/ ExitStage1
    \/ ExitStage2
    \/ \E answer \in {"y", "n"} : ExitLast(answer)
    \/ LoopStart
    \/ LoopStop
    \/ LoopBoot
    \/ LoopTest
    \/ LoopCall
    \/ \E o \in Outcomes : LoopReturn(o)
    \/ LoopSleep
    \/ \E sig \in Signals : LoopSignal(sig)

InitLoop == JobIdle /\ LoopInit /\ ClientIdle

SpecLoop == InitLoop /\ [][NextLoop]_vars


(***************************************************************************)
(* Vocabulary of the properties                                            *)
(***************************************************************************)
\* the arguments folded into the aggregate by a completed process_new_result
FoldedArgs == {final_result[i][1] : i \in 1 .. Len(final_result)}
\* the arguments named by the records of a failure list
RecordArgs(fq) == {fq[i][1] : i \in 1 .. Len(fq)}
\* the arguments named by the pairs waiting on result_q
ResultArgs == {result_q[i][1] : i \in 1 .. Len(result_q)}
\* how often x occurs in the sequence q
Count(q, x) == Cardinality({i \in 1 .. Len(q) : q[i] = x})
\* the arguments of the args dump file, none when the file was not written
ArgsDumped == IF "args" \in files THEN dump_args ELSE {}
\* the arguments of the fail dump file, none when the file was not written
FailDumped == IF "fail" \in files THEN RecordArgs(dump_fail) ELSE {}
\* start() has left the drain loop
LeftLoop == spc \in {"except", "settle", "done", "aborted"} \cup ShutdownPcs
\* no worker holds an argument and the server is between two iterations
Quiescent == spc = "test" /\ \A w \in Workers : ~holds[w]

(***************************************************************************)
(* C1.  No argument is silently lost: after the shutdown sequence has      *)
(* finished with the three dumps enabled, every argument seeded with       *)
(* put_arg was passed to process_new_result, or is in the args dump, or is *)
(* in the fail dump.                                                       *)
(* Refuted: start() removes arg from args_set before it calls              *)
(* process_new_result, so a SystemExit between the two loses arg.          *)
(***************************************************************************)
C1_NoArgumentLost ==
    (spc = "done" /\ fnames = DumpKinds) =>
        \A a \in seeded :
            a \in passed \/ a \in ArgsDumped \/ a \in FailDumped

C3_NumresultsLeNumjobs == numresults <= numjobs

(***************************************************************************)
(* C4.  At every quiescent moment |args_set| = numjobs - numresults -      *)
(* fail_q.qsize().                                                         *)
(* Refuted as soon as fail_q holds a record: failed arguments stay in      *)
(* args_set.                                                               *)
(***************************************************************************)
C4_LedgerEquation ==
    Quiescent =>
        Cardinality(args_set) = numjobs - numresults - qsize(fail_q)

\* C4 as amended: at every quiescent moment |args_set| = numjobs - number of
\* completed folds, and the equation of the claim holds while fail_q is
\* empty.
C4_LedgerCountsFolds ==
    Quiescent =>
        /\ Cardinality(args_set) = numjobs - Len(final_result)
        /\ fail_q = <<>> =>
              Cardinality(args_set) = numjobs - numresults - qsize(fail_q)

\* a quiescent moment after a fold with a failure record on fail_q
C4_Witness ==
    /\ Quiescent
    /\ final_result # <<>>
    /\ fail_q # <<>>

(***************************************************************************)
(* C5.  Each seeded argument is folded at most once, and result_q never    *)
(* delivers to the drain loop a pair whose argument was already removed    *)
(* from args_set.                                                          *)
(* Refuted: a worker that is signalled after it has put its result         *)
(* re-queues that argument (see C32); the second result raises KeyError in *)
(* args_set.remove.                                                        *)
(***************************************************************************)
C5_NoSecondDelivery ==
    /\ \A a \in Args : Count([i \in 1 .. Len(final_result) |-> final_result[i][1]], a) <= 1
    /\ err # "KeyError"


(***************************************************************************)
(* C6.  After a run with unique seeded arguments in which no call of func  *)
(* fails and no signal is delivered, the server leaves the drain loop with *)
(* args_set empty, process_new_result called numjobs times, numresults =   *)
(* numjobs, and no args dump.                                              *)
(* Refuted: an exception of process_new_result ends the drain loop early.  *)
(***************************************************************************)
\* no seeded argument makes func raise and no signal was delivered
CleanRun == unique /\ seeded \cap fail_args = {} /\ ~signalled

C7_WorkerExclusive ==
    unique =>
        \A w \in Workers :
            holds[w] =>
                /\ new_args[w] \notin Range(job_q)
                /\ \A v \in Workers \ {w} :
                      holds[v] => new_args[v] # new_args[w]

\* two workers hold an argument each at the same time
C7_Witness ==
    /\ unique
    /\ \E w \in Workers : \E v \in Workers \ {w} : holds[w] /\ holds[v]

(***************************************************************************)
(* C8.  Shutdown always runs: every step that takes start() out of the try *)
(* block of the drain loop leads to the except block or to the else branch *)
(* (the settling sleep), both of which only lead to _shoutdown; the        *)
(* settling sleep is begun only where the loop test found the gate closed. *)
(***************************************************************************)
C8_ShutdownAlwaysRuns ==
    /\ [][(spc \in TryPcs /\ spc' \notin TryPcs)
            => spc' \in {"except", "settle"}]_vars
    /\ [][(spc \in {"except", "settle"} /\ spc' # spc)
            => spc' = "shutdown"]_vars
    /\ [][(spc' = "settle" /\ spc # "settle")
            => (spc = "test" /\ ~Gate(args_set, fail_q))]_vars
    /\ [][(slept' /\ ~slept) => spc' = "settle"]_vars
    /\ [](spc = "except" => ~slept)

\* _shoutdown is entered after process_new_result raised, without the sleep
C8_Witness == spc = "shutdown" /\ err = "Exception" /\ ~slept

(***************************************************************************)
(* C9.  When the server is interrupted during the drain loop, the shutdown *)
(* writes an args dump that is exactly the set of seeded arguments not yet *)
(* folded, writes the aggregate as folded so far, and writes no fail dump  *)
(* when fail_q is empty.                                                   *)
(* Refuted: an interrupt between args_set.remove(arg) and the end of       *)
(* process_new_result leaves arg neither folded nor dumped (see C24).      *)
(***************************************************************************)
C9_InterruptDumps ==
    (spc = "done" /\ err = "SystemExit" /\ fnames = DumpKinds) =>
        /\ ArgsDumped = seeded \ FoldedArgs
        /\ "final_result" \in files /\ dump_final = final_result
        /\ dump_fail = <<>> => "fail" \notin files

(***************************************************************************)
(* C10.  Per-item fault isolation: when func raises on argument A the      *)
(* worker puts one failure record for A on fail_q, nothing on result_q,    *)
(* and goes on with the next job_q.get; A is never folded.  Stated for the *)
(* worker's own steps: a signal or the loss of the SyncManager inside the  *)
(* except block ends the worker by another path.                           *)
(***************************************************************************)
\* how many workers hold argument a
Holders(a) == Cardinality({w \in Workers : holds[w] /\ new_args[w] = a})

ClientTerminated ==
    /\ spc \in TryPcs
    /\ final_result # <<>>
    /\ signalled
    /\ \A w \in Workers : wpc[w] = "exited"
    /\ result_q = <<>>
    /\ Gate(args_set, fail_q)

C11_TerminatedClientServerSettles ==
    ClientTerminated ~> (slept \/ err # "none")

(***************************************************************************)
(* C12.  Liveness of the drain: when start() is called with every argument *)
(* seeded before any client has connected, a worker is started later on,   *)
(* and no signal is delivered, then every seeded argument is eventually    *)
(* folded or reported on fail_q and the server completes its shutdown      *)
(* sequence.                                                               *)
(* Refuted: with the status bar enabled (the default) start() raises       *)
(* TypeError in the StatusBar constructor before the drain loop, and with  *)
(* fname_for_fail_dump = None the shutdown raises in open(None) (see C15). *)
(***************************************************************************)
\* start() was called and no worker process has been spawned yet
StartedBeforeClients ==
    /\ spc \notin {"seed", "put_inc"}
    /\ seeded # {}
    /\ \A w \in Workers : wpc[w] = "idle"
\* the shutdown sequence is complete and every seeded argument was folded or
\* is in the fail dump
DrainComplete ==
    /\ spc = "done"
    /\ \A a \in seeded : a \in FoldedArgs \/ a \in RecordArgs(dump_fail)

C12_DrainLiveness ==
    [](StartedBeforeClients =>
          \/ [](\A w \in Workers : wpc[w] = "idle")
          \/ <>(DrainComplete \/ signalled))

(***************************************************************************)
(* C13.  start() precondition faults: start() raises its precondition      *)
(* error (RuntimeError) exactly when it is called from a process other     *)
(* than the one that constructed the server or when numjobs # |args_set|   *)
(* at entry; then the drain loop is not entered, nothing is folded, the    *)
(* shutdown sequence does not run and no dump is created.                  *)
(***************************************************************************)
C13_StartPrecondition ==
    /\ [][(spc = "seed" /\ caller' # caller)
            => ((spc' = "raised" /\ err' = "RuntimeError")
                  <=> (caller' # "owner"
                         \/ numjobs # Cardinality(args_set)))]_vars
    /\ [](err = "RuntimeError" =>
            /\ spc = "raised"
            /\ final_result = <<>>
            /\ passed = {}
            /\ ~slept
            /\ manager_up
            /\ files = {})

\* start() was called in a subprocess after a correct seeding, and a worker
\* has posted a result that is never read
C13_Witness ==
    /\ caller = "subprocess"
    /\ err = "RuntimeError"
    /\ SeedingOk(numjobs, args_set)
    /\ result_q # <<>>

(***************************************************************************)
(* C14.  Worker pool sizing: for every nproc and every cpu_count >= 1 the  *)
(* client starts nproc workers when nproc > 0 and max(1, cpu_count +       *)
(* nproc) workers when nproc <= 0; the construction never fails.           *)
(* Refuted: __init__ computes cpu_count + nproc and asserts that it is     *)
(* positive, so nproc <= -cpu_count raises AssertionError.                 *)
(***************************************************************************)
\* the pool size the sizing rule asks for
PoolSize(n, c) == IF n > 0 THEN n ELSE IF c + n > 1 THEN c + n ELSE 1

C14_PoolSizing ==
    /\ cpc # "raised"
    /\ cpc # "new" => nproc = PoolSize(nproc_arg, cpu_count)
    /\ cpc = "joined" => procs = PoolSize(nproc_arg, cpu_count)

(***************************************************************************)
(* C15.  Dump policy 'disabled': a dump whose file name option is None is  *)
(* not written, and the shutdown sequence still runs to completion, also   *)
(* when the data of that dump is not empty.                                *)
(* Refuted for the fail dump: its branch does not test the file name, so   *)
(* with fname_for_fail_dump = None and a record on fail_q the sequence     *)
(* ends with TypeError in open(None), after fail_q was drained.            *)
(***************************************************************************)
C15_DisabledDumpSkipped ==
    /\ [](\A k \in DumpKinds \ fnames : k \notin files)
    /\ [][(spc = "dump_fail" /\ spc' \notin {"dump_fail", "aborted"})
            => spc' = "done"]_vars

(***************************************************************************)
(* C16.  Signal-as-exit preserves the held argument: a worker that takes   *)
(* SIGINT/SIGTERM while it holds argument A (job_q.get has returned A and  *)
(* neither a result nor a failure record for A was put) puts A back on     *)
(* job_q, puts nothing on result_q or fail_q, and exits.  Stated for the   *)
(* step by which a holding worker ends while the SyncManager is up.        *)
(* Refuted: a signal that arrives while the worker is inside an except     *)
(* block (a second signal before job_q.put of the except SystemExit block, *)
(* or a signal before fail_q.put after func raised on A) raises SystemExit *)
(* out of __worker_func, and A is neither re-queued nor reported.          *)
(***************************************************************************)
C16_SignalRequeuesHeld ==
    [][\A w \in Workers :
          (holds[w] /\ manager_up /\ wpc[w] # "exited" /\ wpc'[w] = "exited")
              => /\ job_q' = Append(job_q, new_args[w])
                 /\ result_q' = result_q
                 /\ fail_q' = fail_q]_vars

(***************************************************************************)
(* C17.  With zero seeded arguments start() never calls result_q.get or    *)
(* process_new_result, goes from the first loop test through the gate to   *)
(* the shutdown, leaves the aggregate at its initial value, and writes no  *)
(* dumps.                                                                  *)
(* Refuted in its last part: the dump of final_result is written whenever  *)
(* its file name is not None, also for an empty aggregate.                 *)
(***************************************************************************)
\* start() was called on a server without any seeded argument
ZeroSeeded == seeded = {} /\ spc \notin {"seed", "put_inc"}

C17_ZeroArgsNoDumps ==
    ZeroSeeded =>
        /\ spc \notin {"get", "fold"}
        /\ passed = {}
        /\ final_result = <<>>
        /\ files = {}

\* C17 as amended: no result_q.get, no fold, the gate is open at the first
\* loop test, no args dump and no fail dump; the dump of the (empty)
\* aggregate is written when it is enabled.
C17_ZeroArgsOnlyFinalDump ==
    /\ [](ZeroSeeded =>
            /\ spc \notin {"get", "fold"}
            /\ passed = {}
            /\ final_result = <<>>
            /\ files \subseteq {"final_result"}
            /\ spc = "done" =>
                  /\ files = {"final_result"} \cap fnames
                  /\ "final_result" \in files => dump_final = <<>>)
    /\ [][(ZeroSeeded /\ spc = "test" /\ spc' # spc)
            => (spc' = "settle" \/ (spc' = "except" /\ err' = "SystemExit"))]_vars

\* a finished run without arguments that has slept and written the dump of
\* the empty aggregate
C17_Witness ==
    /\ ZeroSeeded
    /\ spc = "done"
    /\ slept
    /\ files = {"final_result"}

(***************************************************************************)
(* C18.  A worker whose job_q.get times out on an empty queue exits        *)
(* without putting anything on result_q, fail_q or job_q; hence the        *)
(* workers of a client that connects after all jobs were drained, with the *)
(* SyncManager still up, end without posting a result or a failure.        *)
(***************************************************************************)
C18_EmptyQueueExit ==
    [][\A w \in Workers :
          (wpc[w] = "get" /\ job_q = <<>> /\ manager_up /\ wpc'[w] # "get")
              => \/ wpc'[w] = "exited" /\ qvars' = qvars
                 \/ wpc'[w] = "requeue" /\ qvars' = qvars /\ signalled']_vars

\* every argument was folded, the SyncManager is up, and every worker has
\* ended on an empty job_q without any signal
C18_Witness ==
    /\ manager_up
    /\ ~signalled
    /\ numjobs = NumArgs
    /\ Len(final_result) = NumArgs
    /\ qvars = <<<<>>, <<>>, <<>>>>
    /\ \A w \in Workers : wpc[w] = "exited"

(***************************************************************************)
(* C19.  Loop stop conditions: the loop process calls func repeatedly with *)
(* a sleep between two calls, and makes no further call of func once func  *)
(* has returned a true value, once the run flag is false at the loop test, *)
(* or once a signal with disposition 'stop' has set the flag to False; a   *)
(* signal with disposition 'ign' leaves the flag unchanged.                *)
(* Refuted in the third condition: the flag is read only by the loop test, *)
(* so a stop signal that arrives after the test has passed and before func *)
(* is entered is followed by one more call.                                *)
(***************************************************************************)
\* func is entered only after a loop test that has read the flag True, and
\* a loop test follows only the start of the process or a sleep, which
\* follows only a call that has returned a false value
LoopOrder ==
    /\ [][calls' # calls => (lpc = "call" /\ calls' = calls + 1)]_vars
    /\ [][(lpc' = "call" /\ lpc # "call") => (lpc = "test" /\ run)]_vars
    /\ [][(lpc' = "test" /\ lpc # "test") => lpc \in {"boot", "sleep"}]_vars
    /\ [][(lpc' = "sleep" /\ lpc # "sleep")
            => (lpc = "func" /\ quit_loop' = "falsy")]_vars
\* no call after a true value, and the loop ends at a test that reads False
\* (the step of the loop process itself: SIGKILL ends it anywhere)
LoopStopsOnQuitOrFlag ==
    /\ [][quit_loop = "truthy" => calls' = calls]_vars
    /\ [][(lpc = "test" /\ ~run /\ lpc' \notin {lpc, "killed"})
            => lpc' = "returned"]_vars
\* a signal with disposition 'ign' leaves the flag as it is, one with
\* disposition 'stop' sets it to False
LoopSignalDispositions ==
    [][\A sig \in Signals :
          (sig \in sigs' /\ sig \notin sigs)
              => run' = (run /\ Disposition(sig) = "ign")]_vars

C19_LoopStopConditions ==
    /\ LoopOrder
    /\ LoopStopsOnQuitOrFlag
    /\ LoopSignalDispositions
    /\ [][sigstopped => calls' = calls]_vars

\* C19 as amended: after a stop signal has set the flag to False the only
\* call of func still made is one whose loop test had already passed, and
\* the next loop test ends the loop.
C19_LoopStopsAtNextTest ==
    /\ LoopOrder
    /\ LoopStopsOnQuitOrFlag
    /\ LoopSignalDispositions
    /\ [](sigstopped /\ IsAlive => ~run)
    /\ [][(sigstopped /\ lpc # "call") => calls' = calls]_vars
    /\ [][(sigstopped /\ lpc = "test" /\ lpc' \notin {lpc, "killed"})
            => lpc' = "returned"]_vars

\* the loop has ended at its test after two calls and a sleep, the flag set
\* to False by a stop signal
C19_Witness ==
    /\ lpc = "returned"
    /\ sigstopped
    /\ quit_loop = "falsy"
    /\ calls >= 2
    /\ starts = 1

(***************************************************************************)
(* C20.  Loop fault handling: when func raises in the loop process the     *)
(* loop ends at once, without a sleep and without a further call of func,  *)
(* and the loop process returns; nothing is propagated to the process that *)
(* created the Loop: the run flag and the state of that process are as     *)
(* before.                                                                 *)
(***************************************************************************)
C20_LoopFaultEndsLoop ==
    /\ [][(lpc = "func" /\ lpc' # lpc /\ quit_loop' = "raised")
            => /\ lpc' = "returned"
               /\ calls' = calls
               /\ run' = run
               /\ starts' = starts
               /\ jvars' = jvars]_vars
    /\ [][(lpc = "returned" /\ quit_loop = "raised")
            => (calls' = calls /\ lpc' \in {"returned", "boot"})]_vars

\* the loop process has returned after func raised in its second call, and
\* the run flag is still True
C20_Witness ==
    /\ lpc = "returned"
    /\ quit_loop = "raised"
    /\ calls >= 2
    /\ run

(***************************************************************************)
(* C21.  Loop shutdown ladder on scoped exit: (1) the run flag is cleared  *)
(* and the process is waited for, (2) terminate is sent and the process is *)
(* waited for, (3) SIGKILL or the operator prompt; a later stage is        *)
(* entered only if the loop process was found alive after the stage        *)
(* before, at every verbosity; SIGKILL is never sent and the operator      *)
(* never asked for a process that had stopped after stage 1 or stage 2.    *)
(* Refuted: the return after stage 2 is inside 'if self.verbose > 0', so   *)
(* at verbosity 0 stage 3 follows also for a process that has stopped.     *)
(***************************************************************************)
C21_ExitLadder ==
    /\ [][(hpc' = "wait1" /\ hpc # "wait1")
            => (hpc = "body" /\ IsAlive /\ ~run')]_vars
    /\ [][(hpc' = "wait2" /\ hpc # "wait2")
            => (hpc = "wait1" /\ IsAlive
                  /\ (lpc # "boot" => "SIGTERM" \in sigs'))]_vars
    /\ [][(hpc' = "last" /\ hpc # "last")
            => (hpc = "wait2" /\ IsAlive)]_vars
    /\ [][((sigkill' /\ ~sigkill) \/ (prompted' /\ ~prompted))
            => hpc = "last"]_vars


(***************************************************************************)
(* C22.  Termination gate: the drain loop goes on exactly while            *)
(* |args_set| - fail_q.qsize() > 0 and is left as soon as that quantity is *)
(* <= 0 at a loop test; it does not wait for fail_q to be drained, so a    *)
(* run in which every remaining argument has a failure record on fail_q    *)
(* leaves the loop with those arguments still in the ledger.               *)
(***************************************************************************)
\* the quantity the while test of the drain loop looks at
Pending == Cardinality(args_set) - Len(fail_q)

C22_TerminationGate ==
    /\ [][(spc = "test" /\ spc' \notin {"test", "except"})
            => /\ spc' = (IF Pending > 0 THEN "get" ELSE "settle")
               /\ args_set' = args_set
               /\ fail_q' = fail_q]_vars
    /\ [][(spc' = "settle" /\ spc # "settle")
            => (spc = "test" /\ Pending <= 0)]_vars
    /\ [][(spc' = "get" /\ spc # "get")
            => (spc = "test" /\ Pending > 0)]_vars

\* the loop was left, without any signal, with one argument folded and the
\* other one, which has a failure record on fail_q, still in the ledger
C22_Witness ==
    /\ spc = "settle"
    /\ ~signalled
    /\ Len(final_result) = 1
    /\ fail_q # <<>>
    /\ args_set # {}
    /\ args_set = RecordArgs(fail_q)

(***************************************************************************)
(* C23.  numresults counts successful folds: in every state between        *)
(* drain-loop iterations numresults equals the number of completed         *)
(* process_new_result calls; each discharge raises it by exactly 1 and the *)
(* failure records on fail_q do not contribute to it.                      *)
(* Refuted: start() recomputes numresults after each fold as               *)
(* numjobs - (len(args_set) - fail_q.qsize()), which adds the number of    *)
(* failure records on fail_q to the number of folds.                       *)
(***************************************************************************)
C23_NumresultsCountsFolds ==
    /\ [](spc = "test" => numresults = Len(final_result))
    /\ [][Len(final_result') = Len(final_result) + 1
            => numresults' = numresults + 1]_vars

(***************************************************************************)
(* C24.  An argument is removed from the ledger only after                 *)
(* process_new_result(arg, result) has completed successfully: when        *)
(* process_new_result raises, or the server is interrupted before or       *)
(* during the fold, the argument is still in args_set when the shutdown    *)
(* dumps the leftover arguments.                                           *)
(* Refuted: start() runs args_set.remove(arg) before it calls              *)
(* process_new_result(arg, result).                                        *)
(***************************************************************************)
C24_DischargeAfterFold ==
    /\ [][\A a \in Args :
            (a \in args_set /\ a \notin args_set') => a \in FoldedArgs']_vars
    /\ []((spc \in {"dump_fail", "done"} /\ "args" \in fnames)
            => \A a \in passed \ FoldedArgs : a \in ArgsDumped)

(***************************************************************************)
(* C25.  Absent-key discharge is an observable fault: when result_q        *)
(* delivers (arg, result) for an arg that is not in args_set, the drain    *)
(* loop does not call process_new_result for it, does not change           *)
(* numresults, and aborts with a fault (KeyError); the shutdown then runs  *)
(* with the ledger and the aggregate as they were before that delivery.    *)
(***************************************************************************)
\* the drain loop takes the head of result_q
Delivery == spc = "get" /\ result_q # <<>> /\ result_q' = Tail(result_q)

C25_AbsentKeyFault ==
    /\ [][(Delivery /\ Head(result_q)[1] \notin args_set)
            => /\ spc' = "except"
               /\ err' = "KeyError"
               /\ passed' = passed
               /\ final_result' = final_result
               /\ numresults' = numresults
               /\ args_set' = args_set]_vars
    /\ [][err = "KeyError"
            => /\ passed' = passed
               /\ final_result' = final_result
               /\ numresults' = numresults
               /\ args_set' = args_set
               /\ spc = "except" => spc' \in {"except", "shutdown"}]_vars
    /\ [](err = "KeyError"
            => /\ spc \in {"except", "done", "aborted"} \cup ShutdownPcs
               /\ "final_result" \in files => dump_final = final_result
               /\ "args" \in files => dump_args = args_set)

\* a second result for an argument that was already folded has ended the
\* drain loop, and the shutdown has run to its end
C25_Witness ==
    /\ err = "KeyError"
    /\ spc = "done"
    /\ cur[1] \in FoldedArgs
    /\ cur[1] \notin args_set

(***************************************************************************)
(* C26.  Shutdown step order: in every execution of the shutdown the steps *)
(* occur in the order: stop the status reporter, request the transport     *)
(* shutdown and wait bounded, call process_final_result, dump the          *)
(* aggregate, dump the leftover args (only if the ledger is non-empty),    *)
(* drain and dump fail_q (only if it is non-empty); process_final_result   *)
(* is always called before the aggregate is dumped, and fail_q is empty    *)
(* after the failures dump.                                                *)
(***************************************************************************)
\* the position that follows pc in _shoutdown
NextShutdownPc(pc) ==
    CASE pc = "shutdown" -> "final"
      [] pc = "final" -> "dump_final"
      [] pc = "dump_final" -> "dump_args"
      [] pc = "dump_args" -> "dump_fail"
      [] pc = "dump_fail" -> "done"

DelayElapses == spc = "settle" /\ spc' = "shutdown" /\ err' = "none"

C28_SettlingCatchesLate ==
    [][DelayElapses => result_q' = <<>>]_vars


(***************************************************************************)
(* C29.  Duplicate insert: put_arg(a) with a already in the ledger still   *)
(* puts a on job_q a second time and increments numjobs by 1 while         *)
(* |args_set| is unchanged; after any sequence of put_arg calls numjobs is *)
(* the number of calls and |args_set| the number of distinct arguments, so *)
(* a subsequent start() fails its seeding precondition whenever some       *)
(* argument was inserted twice.                                            *)
(***************************************************************************)
C29_DuplicateInsert ==
    /\ [][(spc = "seed" /\ spc' = "put_inc")
            => \E a \in Args :
                 /\ job_q' = Append(job_q, a)
                 /\ args_set' = args_set \cup {a}
                 /\ a \in args_set => args_set' = args_set
                 /\ unique' = (unique /\ a \notin args_set)
                 /\ numjobs' = numjobs]_vars
    /\ [][(spc = "put_inc" /\ spc' # spc)
            => (spc' = "seed" /\ numjobs' = numjobs + 1
                  /\ args_set' = args_set /\ job_q' = job_q)]_vars
    /\ [](spc = "seed" =>
            /\ args_set = seeded
            /\ numjobs >= Cardinality(args_set)
            /\ unique <=> numjobs = Cardinality(args_set))
    /\ [][(spc = "seed" /\ spc' \notin {"seed", "put_inc"} /\ ~unique)
            => (spc' = "raised" /\ err' = "RuntimeError")]_vars

\* the same argument was put twice, job_q holds it twice, and start(),
\* called in the owner process, has raised
C29_Witness ==
    /\ spc = "raised"
    /\ err = "RuntimeError"
    /\ caller = "owner"
    /\ ~unique
    /\ numjobs = 2
    /\ args_set = {1}
    /\ job_q = <<1, 1>>

(***************************************************************************)
(* C30.  put_arg is atomic with respect to the numjobs increment: no       *)
(* concurrent observer (a connected worker, the status reporter) can see a *)
(* state in which argument a is already obtainable from job_q, or already  *)
(* has a result on result_q, while numjobs does not yet count it.          *)
(* Refuted: put_arg puts a on job_q before it increments numjobs, and the  *)
(* SyncManager serves job_q from the construction of the server on.        *)
(***************************************************************************)
\* the arguments that have left put_arg's hands: waiting on job_q, held by
\* a worker, or answered on result_q or fail_q
Visible ==
    Len(job_q) + Cardinality({w \in Workers : holds[w]})
        + Len(result_q) + Len(fail_q)

C30_PutArgAtomic ==
    (spc \in {"seed", "put_inc"} /\ ~signalled) => Visible <= numjobs

(***************************************************************************)
(* C31.  The user function is uninterruptible by cancellation: a worker    *)
(* that receives SIGINT/SIGTERM while it executes func(a, const_args)      *)
(* finishes that call and posts its outcome; the exit request is acted on  *)
(* only at the next job_q.get timeout boundary, never inside func.         *)
(* Refuted: the handler of Signal_to_sys_exit calls sys.exit, so           *)
(* SystemExit is raised inside func; the call is given up, nothing is      *)
(* posted, and the except SystemExit block puts the argument back.         *)
(***************************************************************************)
C31_FuncUninterruptible ==
    [][\A w \in Workers :
          (wpc[w] = "func" /\ manager_up /\ wpc'[w] # "func")
              => \/ wpc'[w] = "get"
                      /\ result_q' = Append(result_q, ResultPair(new_args[w]))
                 \/ wpc'[w] = "fail"]_vars

\* C31 as amended: a worker leaves func, while the SyncManager is up, by
\* the return of func (the result is put on result_q), by an exception of
\* func (the last except block), or by a signal: the signal is acted on
\* inside func, no outcome of the call is posted, the worker keeps the
\* argument and enters the except SystemExit block, from which it only
\* puts the argument back on job_q and ends.
C31_FuncInterrupted ==
    /\ [][\A w \in Workers :
            (wpc[w] = "func" /\ manager_up /\ wpc'[w] # "func")
                => \/ wpc'[w] = "get"
                        /\ result_q' = Append(result_q, ResultPair(new_args[w]))
                   \/ wpc'[w] = "fail" /\ qvars' = qvars
                   \/ /\ wpc'[w] = "requeue"
                      /\ signalled'
                      /\ qvars' = qvars
                      /\ holds'[w]
                      /\ new_args'[w] = new_args[w]]_vars
    /\ [][\A w \in Workers :
            (wpc[w] = "requeue" /\ holds[w] /\ wpc'[w] # "requeue")
                => /\ wpc'[w] = "exited"
                   /\ result_q' = result_q
                   /\ fail_q' = fail_q
                   /\ job_q' \in {job_q, Append(job_q, new_args[w])}]_vars

\* a worker was signalled inside func: it is in the except SystemExit block
\* with the argument it holds, and no outcome of the call was posted
C31_Witness ==
    \E w \in Workers :
        /\ wpc[w] = "requeue"
        /\ holds[w]
        /\ new_args[w] \in seeded
        /\ new_args[w] \notin ResultArgs \cup RecordArgs(fail_q) \cup FoldedArgs

(***************************************************************************)
(* C32.  A worker re-queues only an argument it currently holds: on a      *)
(* signal it never puts on job_q an argument for which it has already put  *)
(* a result on result_q or a failure record on fail_q (e.g. when the       *)
(* signal arrives while it waits in the next job_q.get), so a failed       *)
(* argument never re-enters job_q and a completed argument is never        *)
(* processed a second time.                                                *)
(* Refuted: the except SystemExit block puts new_args, the argument of the *)
(* last job_q.get that returned, whether or not its outcome was posted.    *)
(***************************************************************************)
C32_RequeueOnlyHeld ==
    [][\A w \in Workers :
          (wpc[w] = "requeue" /\ wpc'[w] = "exited" /\ job_q' # job_q)
              => holds[w]]_vars

(***************************************************************************)
(* C33.  The shutdown is not abortable by a further signal: once the       *)
(* server's shutdown has started, a second SIGINT/SIGTERM delivered to the *)
(* server main process does not prevent the remaining steps (aggregate     *)
(* dump, leftover-args dump, failures dump) from being executed.           *)
(* Refuted: Signal_to_sys_exit stays installed, so the signal raises       *)
(* SystemExit inside _shoutdown and the rest of it is skipped.             *)
(***************************************************************************)
C33_ShutdownNotAbortable ==
    [][(spc \in ShutdownPcs /\ spc' # spc)
          => (spc' = NextShutdownPc(spc)
                \/ (spc = "dump_fail" /\ spc' = "raised"))]_vars
====
